---------------------------- MODULE Spec2Model ----------------------------
(***************************************************************************)
(* The revenue chart of the e-commerce demo dashboard (OrderChart.tsx):    *)
(* the pure aggregation getRevenuePerDay / aggregateOrdersByDay and the    *)
(* life cycle of the echarts instance and of the window resize listener    *)
(* that the component's effect creates and its cleanup releases.           *)
(*                                                                         *)
(* Time.  A Date is represented by its instant, an integer number of clock *)
(* ticks; a local calendar day is TicksPerDay consecutive ticks, so that   *)
(* several instants share one day and format(_, 'yyyy-MM-dd') is not       *)
(* injective.  new Date() reads the variable now.  The code reads the      *)
(* clock once per element of lastDays, so the readings of one call are a   *)
(* function of the element index; the clock may move on by one tick        *)
(* between two readings of the same synchronous call.                      *)
(*                                                                         *)
(* Numbers.  Order totals are modelled as integers; floating point         *)
(* rounding of the running sum is outside the model.                       *)
(***************************************************************************)
EXTENDS Integers, Sequences, FiniteSets

(***************************************************************************)
(* Bounds of the model.                                                    *)
(***************************************************************************)
TicksPerDay == 2

MaxPeriod == 2

MaxOrders == 2

\* The calendar day on which the clock starts; early enough days exist
\* before it for every window and for one day before the longest window.
Today0 == MaxPeriod + 1

StartTime == Today0 * TicksPerDay

\* The clock runs over the whole of day Today0 and the first tick of the
\* next day, so that a midnight is crossed.
EndTime == StartTime + TicksPerDay

\* periodInDays is a plain number in the code: non-positive values included.
Periods == (0 - 1) .. MaxPeriod

ChartPeriods == 1 .. MaxPeriod

\* Order dates: a day before every window, the first and the last instant
\* of day Today0, and the first instant of the day after.
OrderDates ==
    { (Today0 - MaxPeriod) * TicksPerDay,
      StartTime,
      StartTime + TicksPerDay - 1,
      StartTime + TicksPerDay }

\* The sample of orders the lists are built from: an order placed at the
\* first instant of a day has total 1, a later one a larger total, so that
\* orders of one day differ in instant and in total.
Orders ==
    { [date |-> d, total |-> 1 + (d % TicksPerDay), status |-> s] :
        d \in OrderDates, s \in {"ordered", "cancelled"} }

SeqsUpTo(S, n) == UNION { [1 .. m -> S] : m \in 0 .. n }

OrderLists == SeqsUpTo(Orders, MaxOrders)

\* The order lists the chart component is rendered with.
ChartOrders ==
    { o \in Orders : o.date = StartTime }

ChartOrderLists == {<< >>} \cup { <<o>> : o \in ChartOrders }

VARIABLES
    now,            \* the wall clock: what new Date() returns
    orders,         \* the order list handed to getRevenuePerDay
    call,           \* the last call of getRevenuePerDay: inputs and result
    pair,           \* two consecutive calls on one day with equal arguments
    mounted,        \* OrderChart is mounted (chartRef.current is the div)
    props,          \* OrderChart's current props
    phase,          \* the passive-effect work React has pending
    chartInstance,  \* chartInstance.current: 0 is null, else an instance
    liveInstances,  \* the echarts instances created and not disposed
    chartOption,    \* the option last applied to chartInstance.current
    listeners,      \* the resize listeners registered on window
    cleanupFn,      \* the cleanup the last effect run returned: 0 is none
    historyDuration,\* Dashboard: the selected duration, in days
    sinceDate,      \* Dashboard: the memoized lower bound of the fetch
    data,           \* Dashboard: what useGetList returns as orders
    aggregation     \* Dashboard: the memoized aggregation of orders

aggVars == <<orders, call, pair>>

chartVars ==
    <<mounted, props, phase, chartInstance, liveInstances, chartOption,
      listeners, cleanupFn>>

dashVars == <<historyDuration, sinceDate, data, aggregation>>

vars == <<now, aggVars, chartVars, dashVars>>

(***************************************************************************)
(* date-fns                                                                *)
(***************************************************************************)
\* format(date, 'yyyy-MM-dd'): the key of the local calendar day of date.
format(date) == date \div TicksPerDay

subDays(date, amount) == date - amount * TicksPerDay

addDays(date, amount) == date + amount * TicksPerDay

(***************************************************************************)
(* aggregateOrdersByDay                                                    *)
(***************************************************************************)
\* A variant of emptyAcc with a slip: one accumulator object shared by all
\* calls, which still holds what the previous call left in it.
sharedAcc == IF call.made THEN call.daysWithRevenue ELSE << >>

\* The accumulator the reduce starts from: a fresh empty object.
emptyAcc == << >>

\* A variant of filterOrder with a slip: the status is not looked at.
keepAll(order) == TRUE

\* The filter's predicate: order.status !== 'cancelled'.
filterOrder(order) == order.status # "cancelled"

\* A variant of reducer with a slip: the day's amount is assigned, not
\* added to.
addOverwrite(acc, curr) ==
    LET day == format(curr.date)
    IN  [d \in DOMAIN acc \cup {day} |->
            IF d = day THEN curr.total ELSE acc[d]]

\* One step of the reduce: acc[day] is created at 0 when missing (or
\* falsy), then curr.total is added to it.

reducer(acc, curr) ==
    LET day  == format(curr.date)
        base == IF day \notin DOMAIN acc \/ acc[day] = 0 THEN 0 ELSE acc[day]
    IN  [d \in DOMAIN acc \cup {day} |->
            IF d = day THEN base + curr.total ELSE acc[d]]

RECURSIVE reduce(_, _)
reduce(list, acc) ==
    IF list = << >> THEN acc
    ELSE reduce(Tail(list), reducer(acc, Head(list)))

aggregateOrdersByDay(list) ==
    reduce(SelectSeq(list, filterOrder), emptyAcc)

(***************************************************************************)
(* getRevenuePerDay                                                        *)
(***************************************************************************)
\* Array.from({ length }): ToLength clamps a negative length to 0.
arrayLength(periodInDays) == IF periodInDays > 0 THEN periodInDays ELSE 0

\* Variants of lastDay with a slip: the days built oldest first, and the
\* window shifted back by one day.
lastDayAscending(clock, i) == subDays(clock[i + 1], (Len(clock) - 1) - i)

lastDayShifted(clock, i) == subDays(clock[i + 1], i + 1)

\* Element i of lastDays (i from 0): subDays(new Date(), i), where clock
\* is the sequence of the call's clock readings, one per element.
lastDay(clock, i) == subDays(clock[i + 1], i)

\* daysWithRevenue[key] || 0
lookup(daysWithRevenue, key) ==
    IF key \in DOMAIN daysWithRevenue /\ daysWithRevenue[key] # 0
    THEN daysWithRevenue[key]
    ELSE 0

getRevenuePerDay(list, periodInDays, clock) ==
    LET daysWithRevenue == aggregateOrdersByDay(list)
        n == arrayLength(periodInDays)
        lastDays == [i \in 1 .. n |-> lastDay(clock, i - 1)]
    IN  [i \in 1 .. n |->
            [date  |-> lastDays[i],
             total |-> lookup(daysWithRevenue, format(lastDays[i]))]]

(***************************************************************************)
(* The clock                                                               *)
(***************************************************************************)
\* n successive readings of new Date() in one synchronous run: the first k
\* return now, the others one tick later (k = n: no tick in between).
Readings(n, k) == [i \in 1 .. n |-> IF i <= k THEN now ELSE now + 1]

\* Where the tick may fall among n readings; the first reading is now.
TickPoints(n) == IF n > 1 THEN 1 .. n ELSE {n}

Tick ==
    /\ now < EndTime
    /\ now' = now + 1
    /\ UNCHANGED <<aggVars, chartVars, dashVars>>

(***************************************************************************)
(* A call of getRevenuePerDay(orders, periodInDays)                        *)
(***************************************************************************)
NoCall ==
    [made |-> FALSE, input |-> << >>, periodInDays |-> 0, at |-> 0,
     clock |-> << >>, daysWithRevenue |-> << >>, outcome |-> "none",
     result |-> << >>]

Range(f) == { f[i] : i \in DOMAIN f }

\* pair records two consecutive calls with the same orders and the same
\* periodInDays whose clock readings all fall on one calendar day.
NoPair ==
    [made |-> FALSE, sameClock |-> FALSE, first |-> << >>, second |-> << >>]

Call(periodInDays, k) ==
    LET n      == arrayLength(periodInDays)
        clock  == Readings(n, k)
        ticked == k < n
        result == getRevenuePerDay(orders, periodInDays, clock)
    IN  /\ k \in TickPoints(n)
        /\ ticked => now < EndTime
        /\ call' = [made |-> TRUE, input |-> orders,
                    periodInDays |-> periodInDays, at |-> now,
                    clock |-> clock,
                    daysWithRevenue |-> aggregateOrdersByDay(orders),
                    outcome |-> "returned", result |-> result]
        /\ pair' = IF /\ call.made
                      /\ call.input = orders
                      /\ call.periodInDays = periodInDays
                      /\ \A t \in {call.at, now} \cup Range(call.clock)
                                \cup Range(clock) :
                            format(t) = format(now)
                   THEN [made |-> TRUE, sameClock |-> call.clock = clock,
                         first |-> call.result, second |-> result]
                   ELSE NoPair
        /\ now' = IF ticked THEN now + 1 ELSE now
        /\ UNCHANGED <<orders, chartVars, dashVars>>

(***************************************************************************)
(* OrderChart: render, effect, cleanup                                     *)
(***************************************************************************)
Undefined == [defined |-> FALSE, list |-> << >>]

Defined(list) == [defined |-> TRUE, list |-> list]

PropValues ==
    [orders : {Undefined} \cup { Defined(l) : l \in ChartOrderLists },
     periodInDays : ChartPeriods]

NoOption == [set |-> FALSE, min |-> 0, max |-> 0, data |-> << >>]

\* A fresh object identity: the least id not in use.
FreshId(used) == CHOOSE i \in 1 .. Cardinality(used) + 1 : i \notin used

\* First render: the refs are created (chartInstance.current = null), the
\* div is attached and the effect is scheduled.
Mount(p) ==
    /\ ~mounted
    /\ mounted' = TRUE
    /\ props' = p
    /\ chartInstance' = 0
    /\ chartOption' = NoOption
    /\ phase' = "effect"
    /\ UNCHANGED <<now, aggVars, dashVars, liveInstances, listeners, cleanupFn>>

\* A re-render.  The effect's dependencies [orders, periodInDays] are
\* compared by identity: a new array (newArray) with the same content
\* counts as changed.  React runs the previous cleanup, then the effect.
Render(p, newArray) ==
    /\ mounted
    /\ phase = "idle"
    /\ props' = p
    /\ LET changed == \/ p # props
                      \/ newArray /\ p.orders.defined
       IN  phase' = IF ~changed THEN "idle"
                    ELSE IF cleanupFn # 0 THEN "cleanup"
                    ELSE "effect"
    /\ UNCHANGED <<now, aggVars, dashVars, mounted, chartInstance, liveInstances,
                   chartOption, listeners, cleanupFn>>

\* Strict mode replays the effects of a mounted component: cleanup, then
\* the effect again, with unchanged props.
StrictReplay ==
    /\ mounted
    /\ phase = "idle"
    /\ phase' = IF cleanupFn # 0 THEN "cleanup" ELSE "effect"
    /\ UNCHANGED <<now, aggVars, dashVars, mounted, props, chartInstance,
                   liveInstances, chartOption, listeners, cleanupFn>>

Unmount ==
    /\ mounted
    /\ phase = "idle"
    /\ IF cleanupFn # 0
       THEN phase' = "unmounting" /\ mounted' = mounted
       ELSE phase' = "idle" /\ mounted' = FALSE
    /\ UNCHANGED <<now, aggVars, dashVars, props, chartInstance, liveInstances,
                   chartOption, listeners, cleanupFn>>

\* A variant of listenersAfterCleanup with a slip: the listener is not
\* removed.
listenersKept(handler) == listeners

\* What the cleanup leaves registered: removeEventListener(handleResize).
listenersAfterCleanup(handler) == listeners \ {handler}

\* chartInstance.current?.dispose()
instancesAfterCleanup == liveInstances \ {chartInstance}

\* The function the effect returned.
Cleanup ==
    /\ phase \in {"cleanup", "unmounting"}
    /\ listeners' = listenersAfterCleanup(cleanupFn)
    /\ liveInstances' = instancesAfterCleanup
    /\ chartInstance' = 0
    /\ chartOption' = NoOption
    /\ cleanupFn' = 0
    /\ IF phase = "cleanup"
       THEN phase' = "effect" /\ mounted' = mounted
       ELSE phase' = "idle" /\ mounted' = FALSE
    /\ UNCHANGED <<now, aggVars, dashVars, props>>

\* The body of useEffect.  k is where the clock ticks among the readings
\* of the run: line 99, one per element of lastDays, line 107.
Effect(k) ==
    /\ phase = "effect"
    /\ phase' = "idle"
    /\ IF ~props.orders.defined
       THEN \* if (!orders) return;
            /\ k = 0
            /\ cleanupFn' = 0
            /\ UNCHANGED <<now, chartInstance, liveInstances, chartOption,
                           listeners>>
       ELSE LET periodInDays == props.periodInDays
                n == arrayLength(periodInDays)
                clock == Readings(n + 2, k)
                ticked == k < n + 2
                instance == IF chartInstance = 0
                            THEN FreshId(liveInstances)
                            ELSE chartInstance
                periodStart == subDays(clock[1], periodInDays)
                revenueData ==
                    getRevenuePerDay(props.orders.list, periodInDays,
                                     SubSeq(clock, 2, n + 1))
                handleResize == FreshId(listeners)
            IN  /\ k \in TickPoints(n + 2)
                /\ ticked => now < EndTime
                /\ now' = IF ticked THEN now + 1 ELSE now
                /\ IF mounted \* if (chartRef.current)
                   THEN /\ chartInstance' = instance
                        /\ liveInstances' = liveInstances \cup {instance}
                        /\ chartOption' =
                              [set |-> TRUE,
                               min |-> addDays(periodStart, 1),
                               max |-> clock[n + 2],
                               data |-> revenueData]
                   ELSE UNCHANGED <<chartInstance, liveInstances,
                                    chartOption>>
                /\ listeners' = listeners \cup {handleResize}
                /\ cleanupFn' = handleResize
    /\ UNCHANGED <<aggVars, dashVars, mounted, props>>

(***************************************************************************)
(* Dashboard: duration menu, order fetch, aggregation                      *)
(***************************************************************************)
\* useState(30) and the values of the duration menu.
DefaultDuration == 30

MediumDuration == 60

LongDuration == 90

DurationMenu == {DefaultDuration, MediumDuration, LongDuration}

\* pagination: { page: 1, perPage: 200 }
PerPage == 200

\* The Dashboard's clock starts late enough for the longest duration to
\* reach back, and runs over one day and the first tick of the next.
DashStartTime == (LongDuration + 1) * TicksPerDay

DashEndTime == DashStartTime + TicksPerDay

OrderStatuses == {"ordered", "delivered", "cancelled"}

\* The sample of orders the data provider holds: orders of the day the
\* clock starts on and older ones, of every status.
DashOrders ==
    { [date |-> d, total |-> IF d = DashStartTime THEN 2 ELSE 1,
       status |-> s] :
        d \in {DashStartTime, subDays(DashStartTime, MediumDuration)},
        s \in OrderStatuses }

startOfDay(date) == date - (date % TicksPerDay)

\* What the data provider answers to the getList query: orders with
\* date >= date_gte, sorted by date DESC, one page of them.
ProviderLists(date_gte) ==
    { l \in SeqsUpTo(DashOrders, MaxOrders) :
        /\ Len(l) <= PerPage
        /\ \A i \in DOMAIN l : l[i].date >= date_gte
        /\ \A i \in 1 .. Len(l) - 1 : l[i].date >= l[i + 1].date }

\* A variant of memoSinceDate with a slip: the memo has no dependency and
\* keeps its first value.
memoSinceDateStale(duration) == sinceDate

\* useMemo(() => subDays(startOfDay(new Date()), historyDuration),
\* [historyDuration]) in a render with the given duration: recomputed when
\* the duration differs from the one of the last render.
memoSinceDate(duration) ==
    IF duration # historyDuration
    THEN subDays(startOfDay(now), duration)
    ELSE sinceDate

\* The accumulator of the aggregation's reduce.
initialStats == [revenue |-> 0, nbNewOrders |-> 0, pendingOrders |-> << >>]

\* A variant of statsReducer with a slip: every counted order is pending.
statsReducerAllPending(stats, order) ==
    IF order.status # "cancelled"
    THEN [revenue |-> stats.revenue + order.total,
          nbNewOrders |-> stats.nbNewOrders + 1,
          pendingOrders |-> Append(stats.pendingOrders, order)]
    ELSE stats

statsReducer(stats, order) ==
    LET counted ==
            IF order.status # "cancelled"
            THEN [stats EXCEPT !.revenue = @ + order.total,
                               !.nbNewOrders = @ + 1]
            ELSE stats
    IN  IF order.status = "ordered"
        THEN [counted EXCEPT !.pendingOrders = Append(@, order)]
        ELSE counted

RECURSIVE statsReduce(_, _)
statsReduce(list, stats) ==
    IF list = << >> THEN stats
    ELSE statsReduce(Tail(list), statsReducer(stats, Head(list)))

\* The filter before the reduce: order.status !== 'cancelled'.
isNotCancelled(order) == order.status # "cancelled"

\* revenue.toLocaleString(undefined, { style: 'currency', currency: 'USD',
\* minimumFractionDigits: 0, maximumFractionDigits: 0 }): a currency string
\* of the amount rounded to whole dollars (the totals are whole numbers).
toLocaleString(amount) ==
    [style |-> "currency", currency |-> "USD", digits |-> amount]

\* The aggregation useMemo: {} while orders is undefined.
aggregationOf(ordersProp) ==
    IF ~ordersProp.defined THEN << >>
    ELSE LET aggregations ==
                 statsReduce(SelectSeq(ordersProp.list, isNotCancelled),
                             initialStats)
         IN  [recentOrders  |-> ordersProp.list,
              revenue       |-> toLocaleString(aggregations.revenue),
              nbNewOrders   |-> aggregations.nbNewOrders,
              pendingOrders |-> aggregations.pendingOrders]

\* The Dashboard before it is rendered.
InitDashboard ==
    /\ historyDuration = DefaultDuration
    /\ sinceDate = 0
    /\ data = Undefined
    /\ aggregation = << >>

DashTick ==
    /\ now < DashEndTime
    /\ now' = now + 1
    /\ UNCHANGED <<aggVars, chartVars, dashVars>>

\* A choice in the duration menu, and the render that follows: the new
\* query has no data yet, or shows the data it has cached or kept.
handleHistoryDurationChange(value) ==
    /\ historyDuration' = value
    /\ sinceDate' = memoSinceDate(value)
    /\ data' \in IF value = historyDuration THEN {data} ELSE {Undefined, data}
    /\ aggregation' = aggregationOf(data')
    /\ UNCHANGED <<now, aggVars, chartVars>>

\* The query settles with the provider's answer, and the render that
\* follows.
FetchSettled(list) ==
    /\ list \in ProviderLists(sinceDate)
    /\ data' = Defined(list)
    /\ aggregation' = aggregationOf(data')
    /\ UNCHANGED <<now, aggVars, chartVars, historyDuration, sinceDate>>

(***************************************************************************)
(* Specifications                                                          *)
(***************************************************************************)
InitChart ==
    /\ mounted = FALSE
    /\ props = [orders |-> Undefined, periodInDays |-> 1]
    /\ phase = "idle"
    /\ chartInstance = 0
    /\ liveInstances = {}
    /\ chartOption = NoOption
    /\ listeners = {}
    /\ cleanupFn = 0

\* The aggregator on its own: the inputs are drawn from the bounded sets
\* and getRevenuePerDay is applied to them.
AggInit ==
    /\ now = StartTime
    /\ orders \in OrderLists
    /\ call = NoCall
    /\ pair = NoPair
    /\ InitChart
    /\ InitDashboard

AggNext ==
    \/ Tick
    \/ \E periodInDays \in Periods, k \in 0 .. MaxPeriod :
          Call(periodInDays, k)

AggSpec == AggInit /\ [][AggNext]_vars

\* The chart component driven by its parent and by React.
Init ==
    /\ now = StartTime
    /\ orders = << >>
    /\ call = NoCall
    /\ pair = NoPair
    /\ InitChart
    /\ InitDashboard

Next ==
    \/ Tick
    \/ \E p \in PropValues : Mount(p)
    \/ \E p \in PropValues, newArray \in BOOLEAN : Render(p, newArray)
    \/ StrictReplay
    \/ Unmount
    \/ Cleanup
    \/ \E k \in 0 .. MaxPeriod + 2 : Effect(k)

Spec == Init /\ [][Next]_vars

\* The Dashboard after its first render, driven by the duration menu, the
\* data provider and the clock.
DashInit ==
    /\ now = DashStartTime
    /\ orders = << >>
    /\ call = NoCall
    /\ pair = NoPair
    /\ InitChart
    /\ historyDuration = DefaultDuration
    /\ sinceDate = subDays(startOfDay(now), DefaultDuration)
    /\ data = Undefined
    /\ aggregation = aggregationOf(Undefined)

DashNext ==
    \/ DashTick
    \/ \E value \in DurationMenu : handleHistoryDurationChange(value)
    \/ \E list \in SeqsUpTo(DashOrders, MaxOrders) : FetchSettled(list)

DashSpec == DashInit /\ [][DashNext]_vars

(***************************************************************************)
(* Properties of getRevenuePerDay, stated on the last call                 *)
(***************************************************************************)
DayOf(date) == date \div TicksPerDay

RECURSIVE SumOver(_, _)
SumOver(f, S) ==
    IF S = {} THEN 0
    ELSE LET i == CHOOSE j \in S : TRUE
         IN  f[i] + SumOver(f, S \ {i})

\* The revenue of a calendar day: the totals of the orders of that day
\* that are not cancelled, added up.
RevenueOfDay(list, day) ==
    SumOver([i \in DOMAIN list |-> list[i].total],
            { i \in DOMAIN list :
                list[i].status # "cancelled" /\ DayOf(list[i].date) = day })

\* The trailing window of n days that ends at day today.
Window(today, n) == (today - n + 1) .. today

ResultDays(result) == { DayOf(result[i].date) : i \in DOMAIN result }

ResultSum(result) ==
    SumOver([i \in DOMAIN result |-> result[i].total], DOMAIN result)

\* "Today" of a call: the day on which the call starts, or the day on
\* which it ends when midnight passes during the call.
CallTodays == { DayOf(call.at), DayOf(now) }

Positive == call.made /\ call.periodInDays > 0

\* C1: for a positive periodInDays the result has exactly periodInDays
\* entries and their days are exactly the periodInDays consecutive
\* calendar days ending at today, each once (for some reading of "today":
\* the day the call starts or the day it ends).
C1_ExactWindow ==
    Positive =>
        /\ Len(call.result) = call.periodInDays
        /\ \E today \in CallTodays :
              ResultDays(call.result) = Window(today, call.periodInDays)

\* The same with one clock value for the whole call (no tick between the
\* readings): the circumstance in which the code does what C1 says.
OneReading == \A t \in Range(call.clock) : t = call.at

ExactWindowOneReading ==
    (Positive /\ OneReading) =>
        /\ Len(call.result) = call.periodInDays
        /\ ResultDays(call.result) =
              Window(DayOf(call.at), call.periodInDays)

C3_SumOverWindow ==
    Positive =>
        \E today \in CallTodays :
            ResultSum(call.result) =
                SumOver([d \in Window(today, call.periodInDays) |->
                            RevenueOfDay(call.input, d)],
                        Window(today, call.periodInDays))

SumOverWindowOneReading ==
    (Positive /\ OneReading) =>
        ResultSum(call.result) =
            SumOver([d \in Window(DayOf(call.at), call.periodInDays) |->
                        RevenueOfDay(call.input, d)],
                    Window(DayOf(call.at), call.periodInDays))

\* C4: the total of every entry is the revenue of the entry's calendar
\* day: the totals of the non-cancelled orders of that day added up, zero
\* when there is none.
C4_TotalOfDay ==
    call.made =>
        \A i \in DOMAIN call.result :
            call.result[i].total =
                RevenueOfDay(call.input, DayOf(call.result[i].date))

\* Two non-cancelled orders of one day, placed at different instants, add
\* up in that day's entry; an entry without orders is zero.
C4_Witness ==
    /\ call.made
    /\ \E i \in DOMAIN call.result, a, b \in DOMAIN call.input :
          /\ a # b
          /\ call.input[a].status # "cancelled"
          /\ call.input[b].status # "cancelled"
          /\ call.input[a].date # call.input[b].date
          /\ DayOf(call.input[a].date) = DayOf(call.result[i].date)
          /\ DayOf(call.input[b].date) = DayOf(call.result[i].date)
          /\ call.result[i].total =
                call.input[a].total + call.input[b].total
    /\ \E i \in DOMAIN call.result : call.result[i].total = 0

WithoutCancelled(list) ==
    LET Keep(order) == order.status # "cancelled" IN SelectSeq(list, Keep)

\* C5: the result is the one the same call gives for the list with its
\* cancelled orders removed.
C5_CancelledExcluded ==
    call.made =>
        call.result =
            getRevenuePerDay(WithoutCancelled(call.input), call.periodInDays,
                             call.clock)

\* A cancelled order dated on a day of the result, beside a counted one.
C5_Witness ==
    /\ call.made
    /\ \E i \in DOMAIN call.result, a, b \in DOMAIN call.input :
          /\ call.input[a].status = "cancelled"
          /\ call.input[b].status # "cancelled"
          /\ DayOf(call.input[a].date) = DayOf(call.result[i].date)
          /\ DayOf(call.input[b].date) = DayOf(call.result[i].date)
          /\ call.result[i].total = call.input[b].total

OutsideWindow(order, today, n) ==
    \/ DayOf(order.date) < today - n + 1
    \/ DayOf(order.date) > today

\* C6: an order dated before the first day of the window or after today,
\* added at either end of the list, changes no entry of the result.
C6_OutsideIgnored ==
    Positive =>
        \A o \in Orders :
            OutsideWindow(o, DayOf(call.at), call.periodInDays) =>
                /\ getRevenuePerDay(Append(call.input, o),
                                    call.periodInDays, call.clock)
                      = call.result
                /\ getRevenuePerDay(<<o>> \o call.input,
                                    call.periodInDays, call.clock)
                      = call.result

\* The list holds a counted order before the window and one after today,
\* and the result shows neither.
C6_Witness ==
    /\ Positive
    /\ \E a, b \in DOMAIN call.input :
          /\ call.input[a].status # "cancelled"
          /\ call.input[b].status # "cancelled"
          /\ DayOf(call.input[a].date)
                < DayOf(call.at) - call.periodInDays + 1
          /\ DayOf(call.input[b].date) > DayOf(call.at)
    /\ \A i \in DOMAIN call.result : call.result[i].total = 0

\* C7: a call with a non-positive periodInDays signals an error.
C7_FailsFast ==
    (call.made /\ call.periodInDays <= 0) => call.outcome = "threw"

DaysAndTotals(result) ==
    [i \in DOMAIN result |->
        [day |-> DayOf(result[i].date), total |-> result[i].total]]

C9_NoSideEffect ==
    call.made =>
        /\ orders = call.input
        /\ DOMAIN call.daysWithRevenue =
              { DayOf(call.input[i].date) :
                  i \in { j \in DOMAIN call.input :
                            call.input[j].status # "cancelled" } }
        /\ \A d \in DOMAIN call.daysWithRevenue :
              call.daysWithRevenue[d] = RevenueOfDay(call.input, d)

\* A second call in a row, over a list with counted and cancelled orders.
C9_Witness ==
    /\ call.made
    /\ pair.made
    /\ call.daysWithRevenue # << >>
    /\ \E i \in DOMAIN orders : orders[i].status = "cancelled"

(***************************************************************************)
(* Properties of the OrderChart effect                                     *)
(***************************************************************************)
\* C10: at most one echarts instance is live and at most one resize
\* listener is registered; whatever is live or registered is what the
\* pending cleanup of the last effect run releases; with no cleanup
\* pending, and after unmount, no instance and no listener remains.
C10_OneInstanceOneListener ==
    /\ Cardinality(liveInstances) <= 1
    /\ Cardinality(listeners) <= 1
    /\ cleanupFn # 0 =>
          /\ listeners = {cleanupFn}
          /\ liveInstances = {chartInstance}
          /\ chartInstance # 0
    /\ cleanupFn = 0 =>
          /\ listeners = {}
          /\ liveInstances = {}
          /\ chartInstance = 0
    /\ ~mounted => cleanupFn = 0

\* The effect has run with orders and the longest period after the clock
\* moved on: the chart shows its data, and the instance and the listener
\* of that run await its cleanup.
C10_Witness ==
    /\ mounted
    /\ phase = "idle"
    /\ cleanupFn # 0
    /\ chartOption.set
    /\ Len(chartOption.data) = MaxPeriod
    /\ now > StartTime

(***************************************************************************)
(* Properties of the Dashboard                                             *)
(***************************************************************************)
Keys == {"recentOrders", "revenue", "nbNewOrders", "pendingOrders"}

CountedIndices(list) ==
    { i \in DOMAIN list : list[i].status # "cancelled" }

\* C11: for a loaded order list, nbNewOrders is the number of non-cancelled
\* orders, revenue is the currency string of the sum of their totals,
\* pendingOrders is the orders of status 'ordered' in their input order
\* and recentOrders is the whole list; while orders is not loaded none of
\* the four is defined.
C11_Aggregation ==
    IF data.defined
    THEN /\ DOMAIN aggregation = Keys
         /\ aggregation.nbNewOrders = Cardinality(CountedIndices(data.list))
         /\ aggregation.revenue =
               toLocaleString(
                   SumOver([i \in DOMAIN data.list |-> data.list[i].total],
                           CountedIndices(data.list)))
         /\ LET IsOrdered(order) == order.status = "ordered"
            IN  aggregation.pendingOrders = SelectSeq(data.list, IsOrdered)
         /\ aggregation.recentOrders = data.list
    ELSE DOMAIN aggregation \cap Keys = {}

\* A loaded list with a cancelled, a delivered or an ordered order each:
\* the cancelled one is among recentOrders only, one order is pending.
C11_Witness ==
    /\ data.defined
    /\ \E i \in DOMAIN data.list : data.list[i].status = "cancelled"
    /\ \E i \in DOMAIN data.list : data.list[i].status = "ordered"
    /\ Len(aggregation.pendingOrders) = 1
    /\ aggregation.nbNewOrders = 1

\* The entries the chart computes now from the Dashboard's props,
\* orders = recentOrders and periodInDays = historyDuration, with the
\* clock ticking after reading k of the call.
ChartWindow(k) ==
    getRevenuePerDay(IF data.defined THEN aggregation.recentOrders ELSE << >>,
                     historyDuration,
                     Readings(historyDuration, k))

\* C12: the lower bound of the order fetch is the start of a day and is on
\* or before the start of every day of the chart window computed with
\* periodInDays = historyDuration, the oldest day included, whether or not
\* the clock ticks during the computation.
C12_FetchCoversWindow ==
    /\ sinceDate = startOfDay(sinceDate)
    /\ \A k \in {1, historyDuration} :
          /\ Len(ChartWindow(k)) = historyDuration
          /\ \A i \in DOMAIN ChartWindow(k) :
                sinceDate <= startOfDay(ChartWindow(k)[i].date)

\* The longest duration was selected and orders were loaded for it, among
\* them one older than the default duration reaches; midnight has passed
\* since the bound was computed.
C12_Witness ==
    /\ historyDuration = LongDuration
    /\ data.defined
    /\ \E i \in DOMAIN data.list :
          data.list[i].date < subDays(now, DefaultDuration)
    /\ sinceDate < subDays(startOfDay(now), historyDuration)

=============================================================================
